---------------------------- MODULE Spec2Model ----------------------------
(***************************************************************************)
(* A model of backend/ai_solver.py: AdvancedProblemSolver, the keyword     *)
(* classifier solve_general_problem and its six handlers, and of            *)
(* backend/app.py: EnhancedChatBot, FallbackChatBot and the endpoints      *)
(* /chat and /solve.                                                       *)
(*                                                                         *)
(* A query is a TLA+ string, built one piece at a time by the caller, so   *)
(* that every substring test, regular expression and digit extraction of   *)
(* the source is computed on the characters of the query.                  *)
(***************************************************************************)
EXTENDS Integers, Sequences, FiniteSets, TLC

VARIABLES
    problem,   \* the query string the caller is composing / has passed
    pc,        \* "input" | "dispatch" | "done"
    pieces,    \* the number of pieces the query was composed of
    entry,     \* what the caller invoked: "solve_general_problem" or a handler
    handler,   \* the handler the call dispatches to, "none" before the call
    invoked,   \* the handlers invoked for this call, in order
    outcome,   \* what the call produced: NoOutcome, Return(sol) or Raise(..)
    solvers,   \* self.solvers of the AdvancedProblemSolver instance
    calls,     \* the invocations in progress on the instance, one per caller
    chatbot,   \* the module-level chatbot of app.py
    request,   \* the request the server handled last
    reply,     \* the response the endpoint gave to it
    consulted  \* the calls the endpoint made for it, in order, with results

\* One caller's call of the solver.
solverVars == <<problem, pieces, pc, entry, handler, invoked, outcome>>
\* The instance and the invocations running on it concurrently.
concVars == <<solvers, calls>>
\* The server of app.py.
serverVars == <<chatbot, request, reply, consulted>>

vars == <<solverVars, concVars, serverVars>>

-----------------------------------------------------------------------------
(* Bounds of the model.                                                    *)

\* Pieces a caller may put into one query (specification Spec).
MaxPieces == 2
\* Pieces of an input handed to solve_math_problem (specification SpecMath).
MaxMathPieces == 4
\* Pieces of an input handed to solve_conversion_problem (SpecConv).
MaxConvPieces == 3
\* Length of the long digit run a query may contain, and how many it may.
BigDigits == 400
MaxBigRuns == 1
\* Integers of at most this many digits are computed exactly by the model;
\* longer ones are carried as the digit strings Python would convert.
ExactDigits == 4
\* Readings of the wall clock (datetime.now()) the model distinguishes.
ClockTicks == 2
\* Callers that invoke one AdvancedProblemSolver instance concurrently.
MaxCallers == 2

-----------------------------------------------------------------------------
(* Characters and strings.                                                 *)

Ch(s, i) == SubSeq(s, i, i)

Digits == {"0", "1", "2", "3", "4", "5", "6", "7", "8", "9"}

\* \d of the re module, on the characters the model uses.
IsDigit(c) == c \in Digits

\* \s of the re module.
IsSpace(c) == c \in {" ", "\t", "\n", "\r"}

UpperToLower ==
    [c \in {"A", "B", "C", "D", "E", "F", "G", "H", "I", "J", "K", "L", "M",
            "N", "O", "P", "Q", "R", "S", "T", "U", "V", "W", "X", "Y", "Z"} |->
        CASE c = "A" -> "a" [] c = "B" -> "b" [] c = "C" -> "c" [] c = "D" -> "d"
          [] c = "E" -> "e" [] c = "F" -> "f" [] c = "G" -> "g" [] c = "H" -> "h"
          [] c = "I" -> "i" [] c = "J" -> "j" [] c = "K" -> "k" [] c = "L" -> "l"
          [] c = "M" -> "m" [] c = "N" -> "n" [] c = "O" -> "o" [] c = "P" -> "p"
          [] c = "Q" -> "q" [] c = "R" -> "r" [] c = "S" -> "s" [] c = "T" -> "t"
          [] c = "U" -> "u" [] c = "V" -> "v" [] c = "W" -> "w" [] c = "X" -> "x"
          [] c = "Y" -> "y" [] c = "Z" -> "z"]

LowerChar(c) == IF c \in DOMAIN UpperToLower THEN UpperToLower[c] ELSE c

\* str.lower(), by halves: the recursion is as deep as the logarithm of the
\* length.
RECURSIVE Lower(_)
Lower(s) ==
    IF Len(s) = 0 THEN ""
    ELSE IF Len(s) = 1 THEN LowerChar(s)
    ELSE LET h == Len(s) \div 2
         IN  Lower(SubSeq(s, 1, h)) \o Lower(SubSeq(s, h + 1, Len(s)))

\* k in s
Contains(s, k) ==
    \E i \in 1..(Len(s) - Len(k) + 1) : SubSeq(s, i, i + Len(k) - 1) = k

\* any(keyword in s for keyword in keywords)
ContainsAny(s, keywords) == \E k \in keywords : Contains(s, k)

\* The positions where a maximal digit run starts, and where one ends.
RunStarts(s) ==
    {i \in 1..Len(s) : IsDigit(Ch(s, i)) /\ (i = 1 \/ ~IsDigit(Ch(s, i - 1)))}

RunEnds(s) ==
    {i \in 1..Len(s) : IsDigit(Ch(s, i)) /\ (i = Len(s) \/ ~IsDigit(Ch(s, i + 1)))}

Min(S) == CHOOSE x \in S : \A y \in S : x <= y

\* The runs between the starts and the ends, left to right: the first start
\* goes with the first end.
RECURSIVE Runs(_, _, _)
Runs(s, starts, ends) ==
    IF starts = {} THEN <<>>
    ELSE <<SubSeq(s, Min(starts), Min(ends))>>
            \o Runs(s, starts \ {Min(starts)}, ends \ {Min(ends)})

\* re.findall(r'\d+', s): the maximal digit runs, left to right.
FindAllDigits(s) == Runs(s, RunStarts(s), RunEnds(s))

\* re.search(r'(\d+)\s*[ops]\s*(\d+)', s): some operator character has a
\* digit before it and a digit after it, with only whitespace in between.
SearchBinary(s, ops) ==
    \E p \in 1..Len(s) :
        /\ Ch(s, p) \in ops
        /\ \E i \in 1..(p - 1) :
              /\ IsDigit(Ch(s, i))
              /\ \A k \in (i + 1)..(p - 1) : IsSpace(Ch(s, k))
        /\ \E j \in (p + 1)..Len(s) :
              /\ IsDigit(Ch(s, j))
              /\ \A k \in (p + 1)..(j - 1) : IsSpace(Ch(s, k))

-----------------------------------------------------------------------------
(* Python values: str, int and float.                                      *)

PyStr(s) == [kind |-> "str", val |-> s]
PyInteger(n) == [kind |-> "int", val |-> n]
PyFloat(n, d) == [kind |-> "float", val |-> <<n, d>>]
\* A value the model does not evaluate: the expression that computes it.
Expr(kind, op, args) == [kind |-> kind, val |-> <<op>> \o args]

\* The digit string without its leading zeros ("0" for a run of zeros).
RECURSIVE StripZeros(_)
StripZeros(d) == IF Len(d) > 1 /\ Ch(d, 1) = "0" THEN StripZeros(Tail(d)) ELSE d

DigitVal(c) ==
    CASE c = "0" -> 0 [] c = "1" -> 1 [] c = "2" -> 2 [] c = "3" -> 3
      [] c = "4" -> 4 [] c = "5" -> 5 [] c = "6" -> 6 [] c = "7" -> 7
      [] c = "8" -> 8 [] c = "9" -> 9

RECURSIVE Decimal(_)
Decimal(d) ==
    IF Len(d) = 0 THEN 0
    ELSE 10 * Decimal(SubSeq(d, 1, Len(d) - 1)) + DigitVal(Ch(d, Len(d)))

\* int(d) for a digit string d: exact up to ExactDigits significant digits,
\* otherwise the integer named by its digits (Python's int is unbounded).
PyInt(d) ==
    LET z == StripZeros(d)
    IN  IF Len(z) <= ExactDigits THEN PyInteger(Decimal(z)) ELSE [kind |-> "bigint", val |-> z]

\* Bounds on the number of decimal digits of a positive int: exact for an int
\* read from a digit string; n * 9 has as many digits as n or one more;
\* (n - 32) * 5 has between one digit less and one more.
DigitsLo(v) ==
    CASE v.kind = "int" -> Len(ToString(v.val))
      [] v.kind = "bigint" -> Len(v.val)
      [] v.kind = "intexpr" /\ v.val[1] = "*9" -> Len(v.val[2])
      [] v.kind = "intexpr" /\ v.val[1] = "(-32)*5" -> Len(v.val[2]) - 1

DigitsHi(v) ==
    CASE v.kind = "int" -> Len(ToString(v.val))
      [] v.kind = "bigint" -> Len(v.val)
      [] v.kind = "intexpr" -> Len(v.val[2]) + 1

\* [int(d) for d in numbers]
RECURSIVE MapInt(_)
MapInt(numbers) ==
    IF numbers = <<>> THEN <<>> ELSE <<PyInt(Head(numbers))>> \o MapInt(Tail(numbers))

AllExact(vs) == \A i \in 1..Len(vs) : vs[i].kind = "int"

RECURSIVE SumVals(_)
SumVals(vs) == IF vs = <<>> THEN 0 ELSE Head(vs).val + SumVals(Tail(vs))

\* sum(map(int, numbers))
SumAllBad(numbers) ==
    LET vs == MapInt(SubSeq(numbers, 1, 2))
    IN  IF AllExact(vs) THEN PyInteger(SumVals(vs)) ELSE Expr("intexpr", "sum", numbers)
SumAll(numbers) ==
    LET vs == MapInt(numbers)
    IN  IF AllExact(vs) THEN PyInteger(SumVals(vs)) ELSE Expr("intexpr", "sum", numbers)

\* int(a) - int(b)
Minus(a, b) ==
    IF AllExact(<<PyInt(a), PyInt(b)>>) THEN PyInteger(PyInt(a).val - PyInt(b).val)
    ELSE Expr("intexpr", "-", <<a, b>>)

\* int(a) * int(b)
Times(a, b) ==
    IF AllExact(<<PyInt(a), PyInt(b)>>) THEN PyInteger(PyInt(a).val * PyInt(b).val)
    ELSE Expr("intexpr", "*", <<a, b>>)

RECURSIVE GCD(_, _)
GCD(a, b) == IF b = 0 THEN a ELSE GCD(b, a % b)

Abs(n) == IF n < 0 THEN -n ELSE n

\* The float n / d (d > 0), as the rational in lowest terms.
Ratio(n, d) == LET g == GCD(Abs(n), d) IN PyFloat(n \div g, d \div g)

\* sys.float_info.max_10_exp: the largest float is below 10^(FloatMax10Exp + 1).
FloatMax10Exp == 308

\* What evaluation produces: a value, or an exception.
Value(v) == [tag |-> "value", val |-> v]
Raise(exc, msg) == [tag |-> "raise", exc |-> exc, msg |-> msg]

\* a / b for ints a, b >= 0 (true division): the possible results.  A quotient
\* of at least 10^(FloatMax10Exp + 1) cannot be a float; one below
\* 10^FloatMax10Exp can; in between the digit counts do not decide it.
TrueDiv(a, b) ==
    IF b.kind = "int" /\ b.val = 0
    THEN {Raise("ZeroDivisionError", "division by zero")}
    ELSE IF a.kind = "int" /\ b.kind = "int" THEN {Value(Ratio(a.val, b.val))}
    ELSE LET over == Raise("OverflowError", "integer division result too large for a float")
             quot == Value(Expr("floatexpr", "/", <<a, b>>))
         IN  IF DigitsLo(a) - DigitsHi(b) - 1 >= FloatMax10Exp + 1 THEN {over}
             ELSE IF DigitsHi(a) - DigitsLo(b) + 1 <= FloatMax10Exp THEN {quot}
             ELSE {over, quot}

\* format(n / d, '.1f') for d > 0: the decimal with one fractional digit
\* nearest to the quotient (ties to even).
Fixed1(n, d) ==
    LET q == (10 * n) \div d
        r == (10 * n) % d
        t == IF 2 * r > d \/ (2 * r = d /\ q % 2 = 1) THEN q + 1 ELSE q
        a == Abs(t)
    IN  (IF t < 0 THEN "-" ELSE "") \o ToString(a \div 10) \o "." \o ToString(a % 10)

\* An f-string: the concatenation of str() of its parts, left as its parts
\* when one of them is a value the model does not print.
RECURSIVE ConcatParts(_)
ConcatParts(parts) ==
    IF parts = <<>> THEN ""
    ELSE LET h == Head(parts)
         IN  (IF h.kind = "int" THEN ToString(h.val) ELSE h.val) \o ConcatParts(Tail(parts))

FString(parts) ==
    IF \A i \in 1..Len(parts) : parts[i].kind \in {"str", "int"}
    THEN PyStr(ConcatParts(parts))
    ELSE [kind |-> "fstr", val |-> parts]

\* sep.join(numbers)
RECURSIVE Join(_, _)
Join(sep, numbers) ==
    IF numbers = <<>> THEN ""
    ELSE IF Len(numbers) = 1 THEN Head(numbers)
    ELSE Head(numbers) \o sep \o Join(sep, Tail(numbers))

-----------------------------------------------------------------------------
(* Results of a handler.  A Solution is a dict: a function from its keys.   *)
(* In string literals a character beyond U+00FF is written <U+xxxx>.       *)

NoOutcome == [tag |-> "none"]
Return(sol) == [tag |-> "return", sol |-> sol]
\* The end of a block was reached without a return statement.
FallThrough == [tag |-> "fallthrough"]

Solution(answer, explanation, type) ==
    [answer |-> answer, explanation |-> explanation, type |-> PyStr(type)]

\* now.strftime(fmt) for the clock reading now.
Strftime(now, fmt) == [kind |-> "strftime", val |-> <<fmt, now>>]

-----------------------------------------------------------------------------
(* solve_math_problem                                                      *)

IndeterminateForm ==
    [answer |-> PyStr("Indeterminate form (0/0)"),
     explanation |-> PyStr("0 divided by 0 is undefined and considered an indeterminate form in mathematics. It requires limit analysis for proper evaluation."),
     type |-> PyStr("mathematics"),
     details |-> PyStr("Use L'Hôpital's rule or algebraic manipulation for limits")]

InfinitySolution ==
    [answer |-> PyStr("<U+221E> (Infinity)"),
     explanation |-> PyStr("Infinity represents an unbounded quantity larger than any real number."),
     type |-> PyStr("mathematics"),
     details |-> PyStr("Infinity operations: <U+221E> + a = <U+221E>, <U+221E> × <U+221E> = <U+221E>, a/<U+221E> = 0")]

ComplexProblem ==
    Solution(PyStr("Complex mathematical problem"),
             PyStr("This requires advanced mathematical analysis."), "mathematics")

\* numbers[i] of Python (i from 0): the element, or IndexError.
Item(numbers, i) ==
    IF i + 1 <= Len(numbers) THEN Value(numbers[i + 1])
    ELSE Raise("IndexError", "list index out of range")

\* The block under "if re.search(r'(\d+)\s*[\+\-]\s*(\d+)', problem)".
MathAddSub(p) ==
    LET numbers == FindAllDigits(p)
    IN  IF Contains(p, "+")
        THEN LET result == SumAll(numbers)
             IN  {Return(Solution(result,
                        FString(<<PyStr("Addition: " \o Join(" + ", numbers) \o " = "), result>>),
                        "arithmetic"))}
        ELSE IF Contains(p, "-")
        THEN IF Len(numbers) < 2 THEN {Item(numbers, 1)}
             ELSE LET result == Minus(numbers[1], numbers[2])
                  IN  {Return(Solution(result,
                        FString(<<PyStr("Subtraction: " \o numbers[1] \o " - " \o numbers[2] \o " = "), result>>),
                        "arithmetic"))}
        ELSE {FallThrough}

\* "elif '/' in problem and numbers[1] != '0'": the divisor is compared as
\* a string.
DivisionGuardBad(p, numbers) == Contains(p, "/")
DivisionGuard(p, numbers) == Contains(p, "/") /\ numbers[2] # "0"

\* The block under "if re.search(r'(\d+)\s*[\*\/]\s*(\d+)', problem)".
MathMulDivBad(p) ==
    LET numbers == FindAllDigits(p)
    IN  IF Len(numbers) < 2 THEN {Item(numbers, 1)}
        ELSE IF DivisionGuard(p, numbers)
        THEN { IF q.tag = "raise" THEN q
               ELSE Return(Solution(q.val,
                        FString(<<PyStr("Division: " \o numbers[1] \o " ÷ " \o numbers[2] \o " = "), q.val>>),
                        "arithmetic"))
               : q \in TrueDiv(PyInt(numbers[1]), PyInt(numbers[2])) }
        ELSE IF Contains(p, "*")
        THEN LET result == Times(numbers[1], numbers[2])
             IN  {Return(Solution(result,
                        FString(<<PyStr("Multiplication: " \o numbers[1] \o " × " \o numbers[2] \o " = "), result>>),
                        "arithmetic"))}
        ELSE {FallThrough}
MathMulDiv(p) ==
    LET numbers == FindAllDigits(p)
    IN  IF Contains(p, "*")
        THEN IF Len(numbers) < 2 THEN {Item(numbers, 1)}
             ELSE LET result == Times(numbers[1], numbers[2])
                  IN  {Return(Solution(result,
                        FString(<<PyStr("Multiplication: " \o numbers[1] \o " × " \o numbers[2] \o " = "), result>>),
                        "arithmetic"))}
        ELSE IF Len(numbers) < 2 /\ Contains(p, "/") THEN {Item(numbers, 1)}
        ELSE IF DivisionGuard(p, numbers)
        THEN { IF q.tag = "raise" THEN q
               ELSE Return(Solution(q.val,
                        FString(<<PyStr("Division: " \o numbers[1] \o " ÷ " \o numbers[2] \o " = "), q.val>>),
                        "arithmetic"))
               : q \in TrueDiv(PyInt(numbers[1]), PyInt(numbers[2])) }
        ELSE {FallThrough}

\* extract_number: the first integer of the text, 1 when it has none.
extract_number(text) ==
    LET numbers == FindAllDigits(text)
    IN  IF numbers # <<>> THEN PyInt(numbers[1]) ELSE PyInteger(1)

\* math.pi * radius ** 2: the int radius ** 2 is converted to a float, which
\* fails once it has more digits than a float can hold.
CircleArea(radius) ==
    IF radius.kind = "int" THEN {Value(Expr("floatexpr", "pi*r**2", <<radius>>))}
    ELSE LET over == Raise("OverflowError", "int too large to convert to float")
             area == Value(Expr("floatexpr", "pi*r**2", <<radius>>))
         IN  IF 2 * DigitsLo(radius) - 1 >= FloatMax10Exp + 2 THEN {over}
             ELSE IF 2 * DigitsHi(radius) <= FloatMax10Exp THEN {area}
             ELSE {over, area}

\* The block under "if 'area' in problem.lower()".
MathArea(p) ==
    IF Contains(Lower(p), "circle")
    THEN LET radius == extract_number(p)
         IN  { IF a.tag = "raise" THEN a
               ELSE Return(Solution(
                        [kind |-> "fstr", val |-> <<PyStr(".2f"), a.val>>],
                        [kind |-> "fstr", val |-> <<PyStr("Area of circle with radius "), radius,
                                                    PyStr(" = <U+03C0> × r² = 3.14 × "), radius, PyStr("²")>>],
                        "geometry"))
               : a \in CircleArea(radius) }
    ELSE IF Contains(Lower(p), "rectangle") /\ Len(FindAllDigits(p)) >= 2
    THEN LET numbers == FindAllDigits(p)
             area == Times(numbers[1], numbers[2])
         IN  {Return(Solution(area,
                    FString(<<PyStr("Area of rectangle: " \o numbers[1] \o " × " \o numbers[2] \o " = "), area>>),
                    "geometry"))}
    ELSE {FallThrough}

\* The block under "if '%' in problem or 'percent' in problem.lower()".
MathPercent(p) ==
    LET numbers == FindAllDigits(p)
    IN  IF Len(numbers) >= 2
        THEN { IF q.tag = "raise" THEN q
               ELSE LET percentage == [kind |-> "fstr", val |-> <<PyStr(".1f"), q.val, PyStr("*100"), PyStr("%")>>]
                    IN  Return(Solution(percentage,
                            [kind |-> "fstr", val |-> <<PyStr("Percentage: (" \o numbers[1] \o " ÷ " \o numbers[2] \o ") × 100 = "), percentage>>],
                            "mathematics"))
               : q \in TrueDiv(PyInt(numbers[1]), PyInt(numbers[2])) }
        ELSE {FallThrough}

\* The statements of the try block from the percentage test on.
MathFromPercent(p) ==
    IF Contains(p, "%") \/ Contains(Lower(p), "percent") THEN MathPercent(p) ELSE {FallThrough}

\* ... from the area test on: an outcome that is not a fall-through ends the
\* block, a fall-through goes on to the next statement.
MathFromArea(p) ==
    IF Contains(Lower(p), "area")
    THEN UNION { IF o = FallThrough THEN MathFromPercent(p) ELSE {o} : o \in MathArea(p) }
    ELSE MathFromPercent(p)

\* ... from the multiplication and division test on.
MathFromMulDiv(p) ==
    IF SearchBinary(p, {"*", "/"})
    THEN UNION { IF o = FallThrough THEN MathFromArea(p) ELSE {o} : o \in MathMulDiv(p) }
    ELSE MathFromArea(p)

\* ... from the addition and subtraction test on.
MathFromAddSub(p) ==
    IF SearchBinary(p, {"+", "-"})
    THEN UNION { IF o = FallThrough THEN MathFromMulDiv(p) ELSE {o} : o \in MathAddSub(p) }
    ELSE MathFromMulDiv(p)

\* The try block of solve_math_problem.
MathTryBad(p) ==
    IF Contains(Lower(p), "infinity") THEN {Return(InfinitySolution)}
    ELSE IF Contains(p, "0/0") THEN {Return(IndeterminateForm)}
    ELSE MathFromAddSub(p)
MathTry(p) ==
    IF Contains(p, "0/0") THEN {Return(IndeterminateForm)}
    ELSE IF Contains(Lower(p), "infinity") THEN {Return(InfinitySolution)}
    ELSE MathFromAddSub(p)

\* "except Exception as e": the exception becomes the error Solution.
MathExceptBad(o) == o
MathExcept(o) ==
    IF o.tag = "raise"
    THEN Return(Solution(PyStr("Unable to solve"),
                         PyStr("Error in calculation: " \o o.msg), "error"))
    ELSE o

\* solve_math_problem(problem): the outcomes of the call.
solve_math_problem(p) ==
    { IF MathExcept(o) = FallThrough THEN Return(ComplexProblem) ELSE MathExcept(o)
      : o \in MathTry(p) }

-----------------------------------------------------------------------------
(* solve_physics_problem                                                   *)

PhysicsPrinciple ==
    Solution(PyStr("Physics principle"),
             PyStr("Applying fundamental physics laws and equations"), "physics")

\* A handler that stamps its result with the clock.
solve_physics_problemBad(p) ==
    { Return(Solution(PyStr("Physics principle"), Strftime(now, "%H:%M:%S"), "physics"))
      : now \in 1..ClockTicks }
solve_physics_problem(p) ==
    LET problem_lower == Lower(p)
    IN  IF Contains(problem_lower, "velocity")
        THEN {Return([answer |-> PyStr("v = d/t"),
                      explanation |-> PyStr("Velocity = distance ÷ time"),
                      type |-> PyStr("physics"),
                      formula |-> PyStr("v = <U+0394>x/<U+0394>t")])}
        ELSE IF Contains(problem_lower, "acceleration")
        THEN {Return([answer |-> PyStr("a = <U+0394>v/<U+0394>t"),
                      explanation |-> PyStr("Acceleration = change in velocity ÷ time"),
                      type |-> PyStr("physics"),
                      formula |-> PyStr("a = (v_f - v_i)/t")])}
        ELSE IF Contains(problem_lower, "force")
        THEN {Return([answer |-> PyStr("F = m × a"),
                      explanation |-> PyStr("Force = mass × acceleration (Newton's Second Law)"),
                      type |-> PyStr("physics"),
                      formula |-> PyStr("F = ma")])}
        ELSE IF Contains(problem_lower, "energy")
        THEN {Return([answer |-> PyStr("E = m × c²"),
                      explanation |-> PyStr("Energy = mass × speed of light squared (Einstein's equation)"),
                      type |-> PyStr("physics"),
                      formula |-> PyStr("E = mc²")])}
        ELSE {Return(PhysicsPrinciple)}

-----------------------------------------------------------------------------
(* solve_programming_problem                                               *)

\* The keys of the solutions dict, in insertion order, and their snippets.
SnippetKeys == <<"hello world", "fibonacci", "factorial", "prime check">>

Snippet(key) ==
    CASE key = "hello world" -> "print(\"Hello, World!\")"
      [] key = "fibonacci" -> "def fib(n):\n    if n <= 1:\n        return n\n    return fib(n-1) + fib(n-2)"
      [] key = "factorial" -> "def factorial(n):\n    if n == 0:\n        return 1\n    return n * factorial(n-1)"
      [] key = "prime check" -> "def is_prime(n):\n    if n < 2:\n        return False\n    for i in range(2, int(n**0.5)+1):\n        if n % i == 0:\n            return False\n    return True"

\* "for key, solution in solutions.items(): if key in problem_lower: return"
RECURSIVE FirstKey(_, _, _)
FirstKey(keys, i, s) ==
    IF i > Len(keys) THEN 0
    ELSE IF Contains(s, keys[i]) THEN i ELSE FirstKey(keys, i + 1, s)

solve_programming_problem(p) ==
    LET problem_lower == Lower(p)
        k == FirstKey(SnippetKeys, 1, problem_lower)
    IN  IF Contains(problem_lower, "python") /\ k > 0
        THEN {Return([answer |-> PyStr("Python solution for " \o SnippetKeys[k]),
                      explanation |-> PyStr(Snippet(SnippetKeys[k])),
                      type |-> PyStr("programming"),
                      language |-> PyStr("Python")])}
        ELSE {Return(Solution(PyStr("Programming solution"),
                              PyStr("Here's a general approach to solve this programming problem..."),
                              "programming"))}

-----------------------------------------------------------------------------
(* solve_time_date_problem                                                 *)

\* now.strftime(fmt) for the clock reading now.

\* The call reads the clock once; each reading is a possible outcome.
solve_time_date_problem(p) ==
    { IF Contains(Lower(p), "current time")
      THEN Return(Solution(Strftime(now, "%H:%M:%S"),
                  [kind |-> "fstr", val |-> <<PyStr("Current time is "), Strftime(now, "%I:%M %p")>>],
                  "time"))
      ELSE IF Contains(Lower(p), "current date")
      THEN Return(Solution(Strftime(now, "%Y-%m-%d"),
                  [kind |-> "fstr", val |-> <<PyStr("Today is "), Strftime(now, "%A, %B %d, %Y")>>],
                  "date"))
      ELSE IF Contains(Lower(p), "day of week")
      THEN Return(Solution(Strftime(now, "%A"),
                  [kind |-> "fstr", val |-> <<PyStr("Today is "), Strftime(now, "%A")>>],
                  "date"))
      ELSE Return(Solution(PyStr("Time/date information"),
                  PyStr("Based on current datetime calculations"), "time_date"))
      : now \in 1..ClockTicks }

-----------------------------------------------------------------------------
(* solve_conversion_problem                                                *)

\* extract_numbers: [int(num) for num in re.findall(r'\d+', text)]
extract_numbers(text) == MapInt(FindAllDigits(text))

ConversionResultBad ==
    Solution(PyStr("Conversion result"),
             PyStr("Unit conversion using standard formulas"), "unit_conversion")
ConversionResult ==
    Solution(PyStr("Conversion result"),
             PyStr("Unit conversion using standard formulas"), "conversion")

\* (celsius * 9/5) + 32: the int celsius * 9 divided by 5, plus 32.
CelsiusToFahrenheit(celsius) ==
    IF celsius.kind = "int" THEN {Value(Ratio(celsius.val * 9 + 32 * 5, 5))}
    ELSE { IF q.tag = "raise" THEN q ELSE Value(Expr("floatexpr", "+32", <<q.val>>))
           : q \in TrueDiv(Expr("intexpr", "*9", <<celsius.val>>), PyInteger(5)) }

\* (fahrenheit - 32) * 5/9: the int (fahrenheit - 32) * 5 divided by 9.
FahrenheitToCelsius(fahrenheit) ==
    IF fahrenheit.kind = "int" THEN {Value(Ratio((fahrenheit.val - 32) * 5, 9))}
    ELSE TrueDiv(Expr("intexpr", "(-32)*5", <<fahrenheit.val>>), PyInteger(9))

\* f'{x:.1f}' for a float x.
FormatFixed1(x) ==
    IF x.kind = "float" THEN PyStr(Fixed1(x.val[1], x.val[2]))
    ELSE [kind |-> "fstr", val |-> <<PyStr(".1f"), x>>]

\* "numbers = self.extract_numbers(problem)" of either branch.
ConvNumbersBad(p) == <<extract_number(p)>>
ConvNumbers(p) == extract_numbers(p)

solve_conversion_problem(p) ==
    LET problem_lower == Lower(p)
        numbers == ConvNumbers(p)
        placeholder == {Return(ConversionResult)}
    IN  IF Contains(problem_lower, "celsius to fahrenheit")
        THEN IF numbers # <<>>
             THEN LET celsius == numbers[1]
                  IN  { IF f.tag = "raise" THEN f
                        ELSE Return(Solution(
                                FString(<<FormatFixed1(f.val), PyStr("°F")>>),
                                FString(<<celsius, PyStr("°C = ("), celsius, PyStr(" × 9/5) + 32 = "),
                                          FormatFixed1(f.val), PyStr("°F")>>),
                                "conversion"))
                        : f \in CelsiusToFahrenheit(celsius) }
             ELSE placeholder
        ELSE IF Contains(problem_lower, "fahrenheit to celsius")
        THEN IF numbers # <<>>
             THEN LET fahrenheit == numbers[1]
                  IN  { IF c.tag = "raise" THEN c
                        ELSE Return(Solution(
                                FString(<<FormatFixed1(c.val), PyStr("°C")>>),
                                FString(<<fahrenheit, PyStr("°F = ("), fahrenheit, PyStr(" - 32) × 5/9 = "),
                                          FormatFixed1(c.val), PyStr("°C")>>),
                                "conversion"))
                        : c \in FahrenheitToCelsius(fahrenheit) }
             ELSE placeholder
        ELSE placeholder

-----------------------------------------------------------------------------
(* solve_logic_puzzle                                                      *)

PuzzleKeys == <<"what comes next", "logic puzzle", "riddle">>

PuzzleResponse(key) ==
    CASE key = "what comes next" -> "Analyzing the pattern..."
      [] key = "logic puzzle" -> "Applying logical reasoning..."
      [] key = "riddle" -> "Thinking creatively to solve..."

solve_logic_puzzle(p) ==
    LET k == FirstKey(PuzzleKeys, 1, Lower(p))
    IN  IF k > 0
        THEN {Return(Solution(PyStr("Logical solution"), PyStr(PuzzleResponse(PuzzleKeys[k])), "logic"))}
        ELSE {Return(Solution(PyStr("Analytical solution"),
                              PyStr("Using logical reasoning and pattern recognition"), "logic"))}

-----------------------------------------------------------------------------
(* solve_general_problem: the classifier.                                  *)

MathKeywords == {"calculate", "solve", "what is", "how much", "math", "equation"}
PhysicsKeywords == {"velocity", "acceleration", "force", "energy", "physics"}
ProgrammingKeywords == {"code", "program", "function", "algorithm", "python", "javascript"}
TimeDateKeywords == {"time", "date", "day", "week", "month", "year"}
ConversionKeywords == {"convert", "feet to meters", "celsius to fahrenheit"}

\* The if / elif chain on problem_lower: the handler it dispatches to.
ClassifyBad(problem_lower) ==
    IF ContainsAny(problem_lower, TimeDateKeywords) THEN "time_date"
    ELSE IF ContainsAny(problem_lower, MathKeywords) THEN "math"
    ELSE IF ContainsAny(problem_lower, PhysicsKeywords) THEN "physics"
    ELSE IF ContainsAny(problem_lower, ProgrammingKeywords) THEN "programming"
    ELSE IF ContainsAny(problem_lower, ConversionKeywords) THEN "conversion"
    ELSE "logic"
Classify(problem_lower) ==
    IF ContainsAny(problem_lower, MathKeywords) THEN "math"
    ELSE IF ContainsAny(problem_lower, PhysicsKeywords) THEN "physics"
    ELSE IF ContainsAny(problem_lower, ProgrammingKeywords) THEN "programming"
    ELSE IF ContainsAny(problem_lower, TimeDateKeywords) THEN "time_date"
    ELSE IF ContainsAny(problem_lower, ConversionKeywords) THEN "conversion"
    ELSE "logic"

-----------------------------------------------------------------------------
(* The inputs of the model.                                                *)

RECURSIVE Repeat(_, _)
Repeat(c, n) ==
    IF n = 0 THEN ""
    ELSE LET h == Repeat(c, n \div 2) IN IF n % 2 = 0 THEN h \o h ELSE h \o h \o c

\* A run of BigDigits nines: an integer no float can hold.
BigNumber == Repeat("9", BigDigits)

\* What a caller puts into a query for solve_general_problem.
QueryPieces ==
    {"What is ", "current time", "force ", "python ", "update ", "convert ",
     "celsius to fahrenheit ", "fahrenheit to celsius ", "area circle 2",
     "12", "12+3", "12/00", "0/0", BigNumber}

\* What a caller puts into an input of solve_math_problem.
MathPieces ==
    {"0", "1", "1 ", "+", "-", "*", "/", "%", "area circle ", "Infinity"}

\* What a caller puts into an input of solve_conversion_problem.
ConvPieces ==
    {"100", "32", "5 ", "Celsius to Fahrenheit ", "fahrenheit to celsius ",
     "fahrenheit to ", BigNumber}

-----------------------------------------------------------------------------
(* The instance: self.solvers, written once by setup_problem_solvers, and  *)
(* the callers that invoke the instance.                                   *)

HandlerNames == {"math", "physics", "programming", "logic", "time_date", "conversion"}

\* self.solvers: the bound method under each category.
SolverTable ==
    [h \in HandlerNames |->
        CASE h = "math" -> "solve_math_problem"
          [] h = "physics" -> "solve_physics_problem"
          [] h = "programming" -> "solve_programming_problem"
          [] h = "logic" -> "solve_logic_puzzle"
          [] h = "time_date" -> "solve_time_date_problem"
          [] h = "conversion" -> "solve_conversion_problem"]

Callers == 1..MaxCallers

\* A caller with no invocation in progress.
Idle == [pc |-> "idle", entry |-> "none", problem |-> "", handler |-> "none", outcome |-> NoOutcome]

-----------------------------------------------------------------------------
(* The server state before a request: the module is not loaded, no request *)
(* was handled.                                                            *)

NotLoaded ==
    [kind |-> "none", sentiment_analyzer |-> FALSE, problem_solver |-> FALSE,
     tfidf_matrix |-> FALSE, generator |-> FALSE]
NoRequest == [endpoint |-> "none"]
NoReply == [status |-> 0]

-----------------------------------------------------------------------------
(* The state machine: a caller composes a query, calls the solver, and the *)
(* call runs to its outcome.                                               *)

Init ==
    /\ problem = ""
    /\ pieces = 0
    /\ pc = "input"
    /\ entry = "none"
    /\ handler = "none"
    /\ invoked = <<>>
    /\ outcome = NoOutcome
    /\ solvers = SolverTable
    /\ calls = [c \in Callers |-> Idle]
    /\ chatbot = NotLoaded
    /\ request = NoRequest
    /\ reply = NoReply
    /\ consulted = <<>>

\* The caller extends the query by one piece (every piece but the long digit
\* run is far shorter than it, so the length counts the long runs).
Compose(w, max) ==
    /\ pc = "input"
    /\ pieces < max
    /\ w = BigNumber => Len(problem) \div BigDigits < MaxBigRuns
    /\ problem' = problem \o w
    /\ pieces' = pieces + 1
    /\ UNCHANGED <<pc, entry, handler, invoked, outcome, concVars, serverVars>>

\* solve_general_problem(problem) up to the dispatch.
SolveGeneralProblem ==
    /\ pc = "input"
    /\ pc' = "dispatch"
    /\ entry' = "solve_general_problem"
    /\ handler' = Classify(Lower(problem))
    /\ UNCHANGED <<problem, pieces, invoked, outcome, concVars, serverVars>>

\* Handler h runs on the query: one of its outcomes becomes the call's.
Run(h, outcomes) ==
    /\ \E o \in outcomes : outcome' = o
    /\ invoked' = Append(invoked, h)
    /\ pc' = "done"
    /\ UNCHANGED <<problem, pieces, concVars, serverVars>>

\* The handler solve_general_problem dispatched to runs.
Dispatched(h, outcomes) ==
    /\ pc = "dispatch"
    /\ handler = h
    /\ Run(h, outcomes)
    /\ UNCHANGED <<entry, handler>>

SolveMathProblem == Dispatched("math", solve_math_problem(problem))
SolvePhysicsProblem == Dispatched("physics", solve_physics_problem(problem))
SolveProgrammingProblem == Dispatched("programming", solve_programming_problem(problem))
SolveTimeDateProblem == Dispatched("time_date", solve_time_date_problem(problem))
SolveConversionProblem == Dispatched("conversion", solve_conversion_problem(problem))
SolveLogicPuzzle == Dispatched("logic", solve_logic_puzzle(problem))

\* A caller invokes handler h itself.
Called(h, outcomes) ==
    /\ pc = "input"
    /\ entry' = h
    /\ handler' = h
    /\ Run(h, outcomes)

CallMath == Called("math", solve_math_problem(problem))
CallConversion == Called("conversion", solve_conversion_problem(problem))

\* The call is over; the caller starts the next query.
NextQuery ==
    /\ pc = "done"
    /\ problem' = ""
    /\ pieces' = 0
    /\ pc' = "input"
    /\ entry' = "none"
    /\ handler' = "none"
    /\ invoked' = <<>>
    /\ outcome' = NoOutcome
    /\ UNCHANGED <<concVars, serverVars>>

ComposeQuery == \E w \in QueryPieces : Compose(w, MaxPieces)
ComposeMath == \E w \in MathPieces : Compose(w, MaxMathPieces)
ComposeConv == \E w \in ConvPieces : Compose(w, MaxConvPieces)

Next ==
    \/ ComposeQuery
    \/ SolveGeneralProblem
    \/ SolveMathProblem
    \/ SolvePhysicsProblem
    \/ SolveProgrammingProblem
    \/ SolveTimeDateProblem
    \/ SolveConversionProblem
    \/ SolveLogicPuzzle
    \/ NextQuery

\* Queries through the public entry point solve_general_problem.
Spec == Init /\ [][Next]_vars

NextMath == ComposeMath \/ CallMath \/ NextQuery

\* Inputs handed to solve_math_problem.
SpecMath == Init /\ [][NextMath]_vars

NextConv == ComposeConv \/ CallConversion \/ NextQuery

\* Inputs handed to solve_conversion_problem.
SpecConv == Init /\ [][NextConv]_vars

-----------------------------------------------------------------------------
(* Concurrent invocations on one instance.  Each invocation has its own    *)
(* frame (problem, problem_lower, numbers, result, ...); the instance has  *)
(* self.solvers and nothing else.                                          *)

\* Queries of the concurrent callers.
ConcQueries == {"force 12", "What is 12+3", "current time"}

\* The outcomes of the bound method named m on query q.
MethodOutcomes(m, q) ==
    CASE m = "solve_math_problem" -> solve_math_problem(q)
      [] m = "solve_physics_problem" -> solve_physics_problem(q)
      [] m = "solve_programming_problem" -> solve_programming_problem(q)
      [] m = "solve_time_date_problem" -> solve_time_date_problem(q)
      [] m = "solve_conversion_problem" -> solve_conversion_problem(q)
      [] m = "solve_logic_puzzle" -> solve_logic_puzzle(q)

\* solve_general_problem(q): the outcomes of the handler the chain selects.
solve_general_problem(q) == MethodOutcomes(SolverTable[Classify(Lower(q))], q)

\* Caller c starts an invocation: solve_general_problem(q), which selects
\* the handler from q, or the handler solvers[e] itself.
Invoke(c) ==
    /\ calls[c].pc = "idle"
    /\ \E q \in ConcQueries, e \in {"solve_general_problem"} \cup HandlerNames :
          calls' = [calls EXCEPT ![c] =
                      [pc |-> "dispatch", entry |-> e, problem |-> q,
                       handler |-> IF e = "solve_general_problem" THEN Classify(Lower(q)) ELSE e,
                       outcome |-> NoOutcome]]
    /\ UNCHANGED <<solvers, solverVars, serverVars>>

\* The handler of caller c's invocation runs: it reads its argument (and the
\* clock, in solve_time_date_problem) and assigns only its own locals.
Handle(c) ==
    /\ calls[c].pc = "dispatch"
    /\ \E o \in MethodOutcomes(IF calls[c].entry = "solve_general_problem"
                                THEN SolverTable[calls[c].handler]
                                ELSE solvers[calls[c].handler], calls[c].problem) :
          calls' = [calls EXCEPT ![c].pc = "done", ![c].outcome = o]
    /\ UNCHANGED <<solvers, solverVars, serverVars>>

\* The caller has its result and is free for the next invocation.
Finish(c) ==
    /\ calls[c].pc = "done"
    /\ calls' = [calls EXCEPT ![c] = Idle]
    /\ UNCHANGED <<solvers, solverVars, serverVars>>

InvokeSolver == \E c \in Callers : Invoke(c)
HandleQuery == \E c \in Callers : Handle(c)
FinishCall == \E c \in Callers : Finish(c)

NextConc == InvokeSolver \/ HandleQuery \/ FinishCall

\* Callers invoking one instance in any interleaving.
SpecConc == Init /\ [][NextConc]_vars

-----------------------------------------------------------------------------
(* backend/app.py: EnhancedChatBot.  The sentiment analyzer, the TF-IDF    *)
(* matcher and the text generator are outside the program: what each does *)
(* when it is called (return a value or raise) is an input of the request. *)

PyNone == [kind |-> "None", val |-> "None"]

\* bool(v) for the values a response can be: None and "" are false.
Truthy(v) == v # PyNone /\ v # PyStr("")

\* str.strip()
RECURSIVE LStrip(_)
LStrip(t) == IF Len(t) > 0 /\ IsSpace(Ch(t, 1)) THEN LStrip(Tail(t)) ELSE t
RECURSIVE RStrip(_)
RStrip(t) ==
    IF Len(t) > 0 /\ IsSpace(Ch(t, Len(t))) THEN RStrip(SubSeq(t, 1, Len(t) - 1)) ELSE t
Strip(t) == RStrip(LStrip(t))

\* round(n / d, 2) for n >= 0, d > 0: the nearest hundredth (ties to even).
Round2(n, d) ==
    LET q == (100 * n) \div d
        r == (100 * n) % d
    IN  Ratio(IF 2 * r > d \/ (2 * r = d /\ q % 2 = 1) THEN q + 1 ELSE q, 100)

\* One call made while a request is handled, and what it gave.
Call(name, arg, result) == [call |-> name, arg |-> arg, result |-> result]

\* What the sentiment analyzer does when called: a label and a score, or an
\* exception.
SentimentBehaviours ==
    {Value([label |-> PyStr("POSITIVE"), score |-> PyFloat(9987, 10000)]),
     Value([label |-> PyStr("NEGATIVE"), score |-> PyFloat(631, 1000)]),
     Raise("RuntimeError", "sentiment analyzer failed")}

\* What the TF-IDF matcher gives when consulted: the response of the best
\* pattern (similarity above 0.3), nothing (None), or an exception.
RuleBehaviours ==
    {Value(PyStr("Hello!")), Value(PyStr("")), Value(PyNone),
     Raise("ValueError", "vectorizer failed")}

\* What the text generator does when called.
GeneratorBehaviours ==
    {Value(PyStr("generated text")), Value(PyStr("")),
     Raise("RuntimeError", "generator failed")}

\* The behaviour of the three components during one request.
Behaviours ==
    [sentiment : SentimentBehaviours, rule : RuleBehaviours, generator : GeneratorBehaviours]

\* The chatbots EnhancedChatBot() can construct: each model is there or None.
EnhancedChatBots ==
    [kind : {"enhanced"}, sentiment_analyzer : BOOLEAN, problem_solver : BOOLEAN,
     tfidf_matrix : BOOLEAN, generator : BOOLEAN]

\* The result of a method: the value and the calls it made.
Result(out, log) == [out |-> out, log |-> log]

\* EnhancedChatBot.analyze_sentiment
analyze_sentimentBad(bot, text, b) ==
    IF bot.sentiment_analyzer
    THEN Result(IF b.sentiment.tag = "value"
                THEN Value(<<b.sentiment.val.label, b.sentiment.val.score>>)
                ELSE b.sentiment,
                <<Call("sentiment_analyzer", text, b.sentiment)>>)
    ELSE Result(Value(<<PyStr("NEUTRAL"), PyFloat(1, 2)>>), <<>>)
analyze_sentiment(bot, text, b) ==
    IF bot.sentiment_analyzer
    THEN Result(IF b.sentiment.tag = "value"
                THEN Value(<<b.sentiment.val.label, b.sentiment.val.score>>)
                ELSE Value(<<PyStr("NEUTRAL"), PyFloat(1, 2)>>),
                <<Call("sentiment_analyzer", text, b.sentiment)>>)
    ELSE Result(Value(<<PyStr("NEUTRAL"), PyFloat(1, 2)>>), <<>>)

\* EnhancedChatBot.get_rule_based_response
get_rule_based_response(bot, text, b) ==
    IF ~bot.tfidf_matrix THEN Result(Value(PyNone), <<>>)
    ELSE Result(IF b.rule.tag = "value" THEN b.rule ELSE Value(PyNone),
                <<Call("vectorizer", text, b.rule)>>)

\* EnhancedChatBot.get_ai_response
get_ai_response(bot, text, b) ==
    IF bot.generator
    THEN Result(IF b.generator.tag = "value" THEN b.generator ELSE Value(PyNone),
                <<Call("generator", text, b.generator)>>)
    ELSE Result(Value(PyNone), <<>>)

ProblemSolverNotAvailable ==
    Solution(PyStr("Problem solver not available"),
             PyStr("The advanced problem solver is currently unavailable. Please try a simpler query."),
             "fallback")

\* EnhancedChatBot.solve_problem; o is the outcome of solve_general_problem.
solve_problemBad(bot, text, o) ==
    IF bot.problem_solver
    THEN Result(IF o.tag = "return" THEN Value(o.sol) ELSE o,
                <<Call("solve_general_problem", text, o)>>)
    ELSE Result(Value(ProblemSolverNotAvailable), <<>>)
solve_problem(bot, text, o) ==
    IF bot.problem_solver
    THEN Result(IF o.tag = "return" THEN Value(o.sol) ELSE Value(ProblemSolverNotAvailable),
                <<Call("solve_general_problem", text, o)>>)
    ELSE Result(Value(ProblemSolverNotAvailable), <<>>)

ProblemKeywords == {"solve", "calculate", "what is", "how to", "why does", "explain"}

CannedResponses ==
    {"I'm still learning. Can you rephrase that?",
     "That's interesting! Tell me more.",
     "I'm not sure I understand. Could you explain differently?",
     "Let me think about that... Actually, could you ask me something else?",
     "I'm constantly learning! Could you provide more context?"}

\* "if not response and self.generator"
ConsultGeneratorBad(bot, response) == bot.generator
ConsultGenerator(bot, response) == ~Truthy(response) /\ bot.generator

\* The conversational stages of process_message: the rule matcher, then the
\* generator, then a canned response (random.choice: any of them).
Converse(bot, user_input, b, sentiment, confidence) ==
    LET rule == get_rule_based_response(bot, user_input, b)
        ai == IF ConsultGenerator(bot, rule.out.val)
              THEN get_ai_response(bot, user_input, b)
              ELSE Result(rule.out, <<>>)
        staged == IF ConsultGenerator(bot, rule.out.val) THEN "ai_generated" ELSE "rule_based"
    IN  { Result(Value([response |-> IF Truthy(ai.out.val) THEN ai.out.val ELSE PyStr(canned),
                        type |-> PyStr(IF Truthy(ai.out.val) THEN staged ELSE "fallback"),
                        sentiment |-> sentiment,
                        confidence |-> Round2(confidence.val[1], confidence.val[2])]),
                 rule.log \o ai.log)
          : canned \in IF Truthy(ai.out.val) THEN {""} ELSE CannedResponses }

\* EnhancedChatBot.process_message: the possible results, each with the
\* calls made.  o is the outcome of the solver if it is called.
process_message(bot, user_input, b, o) ==
    LET sa == analyze_sentiment(bot, user_input, b)
        is_problem == ContainsAny(Lower(user_input), ProblemKeywords)
    IN  IF sa.out.tag = "raise" THEN {Result(sa.out, sa.log)}
        ELSE LET sentiment == sa.out.val[1]
                 confidence == sa.out.val[2]
                 sp == solve_problem(bot, user_input, o)
                 splog == <<Call("solve_problem", user_input, sp.out)>> \o sp.log
             IN  IF is_problem /\ bot.problem_solver /\ sp.out.tag = "value"
                 THEN {Result(Value(
                          [response |-> FString(<<PyStr("<U+1F914> "), sp.out.val.answer,
                                                  PyStr("\n<U+1F4A1> "), sp.out.val.explanation>>),
                           type |-> PyStr("problem_solution_" \o sp.out.val.type.val),
                           sentiment |-> sentiment,
                           confidence |-> Round2(confidence.val[1], confidence.val[2]),
                           solution_details |-> sp.out.val]),
                          sa.log \o splog)}
                 ELSE { Result(r.out, sa.log
                                 \o (IF is_problem /\ bot.problem_solver THEN splog ELSE <<>>)
                                 \o r.log)
                        : r \in Converse(bot, user_input, b, sentiment, confidence) }

\* FallbackChatBot.process_message
FallbackResponse ==
    [response |-> PyStr("Chatbot is experiencing technical difficulties. Please try again later."),
     type |-> PyStr("error"),
     sentiment |-> PyStr("NEUTRAL"),
     confidence |-> PyFloat(0, 1)]

-----------------------------------------------------------------------------
(* backend/app.py: the module-level chatbot and the endpoints.             *)

\* The chatbot installed when EnhancedChatBot() raised.
FallbackChatBot ==
    [kind |-> "fallback", sentiment_analyzer |-> FALSE, problem_solver |-> FALSE,
     tfidf_matrix |-> FALSE, generator |-> FALSE]

\* Texts a client puts into the message or problem field.
MessageTexts ==
    {"", "  ", " hello ", "What is 12+3", " explain force ", "how to convert 5",
     "explain celsius to fahrenheit " \o BigNumber}

\* JSON values of a field: a string, null, a number.
JsonValues == {PyStr(t) : t \in MessageTexts} \cup {PyNone, PyInteger(5)}

\* Request bodies: not parseable as JSON, the JSON value null, or a JSON
\* object with no field or with one of the fields message and problem.
RequestBodies ==
    {[json |-> "malformed"], [json |-> "null"], [json |-> "object", data |-> <<>>]}
        \cup {[json |-> "object", data |-> (k :> v)] : k \in {"message", "problem"}, v \in JsonValues}

\* data = request.get_json(); data.get(key, '').strip()
StrippedField(body, key) ==
    IF body.json = "malformed"
    THEN Raise("BadRequest", "400 Bad Request: Failed to decode JSON object")
    ELSE IF body.json = "null"
    THEN Raise("AttributeError", "'NoneType' object has no attribute 'get'")
    ELSE LET v == IF key \in DOMAIN body.data THEN body.data[key] ELSE PyStr("")
         IN  IF v.kind = "str" THEN Value(PyStr(Strip(v.val)))
             ELSE IF v.kind = "None"
             THEN Raise("AttributeError", "'NoneType' object has no attribute 'strip'")
             ELSE Raise("AttributeError", "'int' object has no attribute 'strip'")

\* jsonify(...), status
Response(status, json) == [status |-> status, json |-> json]

Timestamp(now) == Strftime(now, "%Y-%m-%d %H:%M:%S")

\* The dict of the except block of chat().
ChatErrorJson(user_message, now) ==
    [error |-> PyStr("Internal server error"),
     user_message |-> user_message,
     bot_response |-> PyStr("Sorry, I encountered an error processing your message."),
     response_type |-> PyStr("error"),
     sentiment |-> PyStr("NEUTRAL"),
     confidence |-> PyFloat(0, 1),
     timestamp |-> Timestamp(now)]

\* chatbot.process_message(user_message) for the installed chatbot.
ChatbotProcessMessage(bot, user_message, b) ==
    IF bot.kind = "fallback" THEN {Result(Value(FallbackResponse), <<>>)}
    ELSE UNION { process_message(bot, user_message, b, o) : o \in solve_general_problem(user_message) }

\* chat(): the responses it can give, each with the calls made.
chat(bot, body, b, now) ==
    LET field == StrippedField(body, "message")
    IN  IF field.tag = "raise"
        THEN {Result(Response(500, ChatErrorJson(PyStr("Unknown"), now)), <<>>)}
        ELSE IF ~Truthy(field.val)
        THEN {Result(Response(400, [error |-> PyStr("Empty message")]), <<>>)}
        ELSE LET user_message == field.val.val
             IN  { LET log == <<Call("process_message", user_message, r.out)>> \o r.log
                   IN  IF r.out.tag = "raise"
                       THEN Result(Response(500, ChatErrorJson(field.val, now)), log)
                       ELSE Result(Response(200,
                              [user_message |-> field.val,
                               bot_response |-> r.out.val.response,
                               response_type |-> r.out.val.type,
                               sentiment |-> r.out.val.sentiment,
                               confidence |-> Round2(r.out.val.confidence.val[1],
                                                     r.out.val.confidence.val[2]),
                               timestamp |-> Timestamp(now),
                               solution_details |->
                                   IF "solution_details" \in DOMAIN r.out.val
                                   THEN r.out.val.solution_details ELSE <<>>]), log)
                   : r \in ChatbotProcessMessage(bot, user_message, b) }

\* chatbot.solve_problem(problem) for the installed chatbot: FallbackChatBot
\* has no such method.
ChatbotSolveProblem(bot, text) ==
    IF bot.kind = "fallback"
    THEN {Result(Raise("AttributeError",
                       "'FallbackChatBot' object has no attribute 'solve_problem'"), <<>>)}
    ELSE { LET sp == solve_problem(bot, text, o)
           IN  Result(sp.out, <<Call("solve_problem", text, sp.out)>> \o sp.log)
           : o \in solve_general_problem(text) }

\* solve_problem() of the route /solve.
solve(bot, body, now) ==
    LET field == StrippedField(body, "problem")
    IN  IF field.tag = "raise"
        THEN {Result(Response(500, [error |-> PyStr(field.msg)]), <<>>)}
        ELSE IF ~Truthy(field.val)
        THEN {Result(Response(400, [error |-> PyStr("Empty problem")]), <<>>)}
        ELSE { IF r.out.tag = "raise"
               THEN Result(Response(500, [error |-> PyStr(r.out.msg)]), r.log)
               ELSE Result(Response(200,
                      [problem |-> field.val, solution |-> r.out.val,
                       timestamp |-> Timestamp(now)]), r.log)
               : r \in ChatbotSolveProblem(bot, field.val.val) }

\* The module is loaded: EnhancedChatBot() succeeds, with each model there
\* or not, or raises and FallbackChatBot is installed.
LoadModule ==
    /\ chatbot.kind = "none"
    /\ chatbot' \in EnhancedChatBots \cup {FallbackChatBot}
    /\ UNCHANGED <<request, reply, consulted, solverVars, concVars>>

\* The endpoint handles a request and responds.
Handled(endpoint, body, r) ==
    /\ chatbot.kind # "none"
    /\ request = NoRequest
    /\ request' = [endpoint |-> endpoint, body |-> body]
    /\ reply' = r.out
    /\ consulted' = r.log
    /\ UNCHANGED <<chatbot, solverVars, concVars>>

\* POST /chat
PostChat ==
    /\ chatbot.kind # "none" /\ request = NoRequest
    /\ \E body \in RequestBodies, b \in Behaviours, now \in 1..ClockTicks :
          \E r \in chat(chatbot, body, b, now) : Handled("/chat", body, r)

\* POST /solve
PostSolve ==
    /\ chatbot.kind # "none" /\ request = NoRequest
    /\ \E body \in RequestBodies, now \in 1..ClockTicks :
          \E r \in solve(chatbot, body, now) : Handled("/solve", body, r)

\* The response is sent; the server waits for the next request.
NextRequest ==
    /\ request # NoRequest
    /\ request' = NoRequest
    /\ reply' = NoReply
    /\ consulted' = <<>>
    /\ UNCHANGED <<chatbot, solverVars, concVars>>

NextServer == LoadModule \/ PostChat \/ PostSolve \/ NextRequest

\* The server: the module is loaded, then requests are handled.
SpecServer == Init /\ [][NextServer]_vars

-----------------------------------------------------------------------------
(* Properties.                                                             *)

Done == pc = "done"
General == entry = "solve_general_problem"
Returned == outcome.tag = "return"
TypeOf(o) == o.sol.type.val

\* C1: every call of solve_general_problem returns a Solution, a dict with
\* the keys answer, explanation and type; it never raises.
C1_AlwaysReturnsSolution ==
    (Done /\ General) =>
        /\ Returned
        /\ {"answer", "explanation", "type"} \subseteq DOMAIN outcome.sol

\* The categories in the order of their priority, and their trigger words.
Priority == <<"math", "physics", "programming", "time_date", "conversion">>

Triggers(h) ==
    CASE h = "math" -> MathKeywords
      [] h = "physics" -> PhysicsKeywords
      [] h = "programming" -> ProgrammingKeywords
      [] h = "time_date" -> TimeDateKeywords
      [] h = "conversion" -> ConversionKeywords

Triggered(q) == {i \in 1..Len(Priority) : ContainsAny(Lower(q), Triggers(Priority[i]))}

\* The category of the highest priority that has a trigger word in the
\* query, logic when none has.
FirstMatch(q) == IF Triggered(q) = {} THEN "logic" ELSE Priority[Min(Triggered(q))]

\* C2: solve_general_problem invokes exactly one handler, that of the first
\* category in the order math, physics, programming, time/date, conversion
\* with a trigger word in the lowercased query, logic when there is none; a
\* query with "what is" goes to the math handler whatever else it holds.
C2_FirstMatchDispatch ==
    /\ (pc = "dispatch" /\ General) => (handler = FirstMatch(problem) /\ invoked = <<>>)
    /\ (Done /\ General) =>
          /\ invoked = <<FirstMatch(problem)>>
          /\ Contains(Lower(problem), "what is") => invoked = <<"math">>

C2_Witness ==
    /\ Done /\ General
    /\ problem = "What is current time"
    /\ invoked = <<"math">>
    /\ outcome = Return(ComplexProblem)

SolutionTypes ==
    {"arithmetic", "geometry", "mathematics", "physics", "programming", "time",
     "date", "time_date", "conversion", "logic", "error"}

HandlerTypes(h) ==
    CASE h = "math" -> {"arithmetic", "geometry", "mathematics", "error"}
      [] h = "physics" -> {"physics"}
      [] h = "programming" -> {"programming"}
      [] h = "time_date" -> {"time", "date", "time_date"}
      [] h = "conversion" -> {"conversion"}
      [] h = "logic" -> {"logic"}

\* C3: the type of every Solution solve_general_problem returns is one of the
\* eleven types, and one the handler the classifier selected can yield.
C3_TypeOfHandler ==
    (Done /\ General /\ Returned) =>
        /\ outcome.sol.type.kind = "str"
        /\ TypeOf(outcome) \in SolutionTypes
        /\ TypeOf(outcome) \in HandlerTypes(handler)

C3_Witness ==
    /\ Done /\ General /\ Returned
    /\ handler = "conversion"
    /\ problem = "convert "
    /\ TypeOf(outcome) = "conversion"

\* C4: an input of solve_math_problem that contains "0/0" gets the
\* indeterminate-form Solution, whatever else it contains.
C4_IndeterminateForm ==
    (Done /\ handler = "math" /\ Contains(problem, "0/0")) =>
        /\ Returned
        /\ outcome.sol.answer = PyStr("Indeterminate form (0/0)")
        /\ TypeOf(outcome) = "mathematics"
        /\ outcome.sol = IndeterminateForm

C4_Witness ==
    /\ Done /\ handler = "math"
    /\ Contains(problem, "0/0")
    /\ Contains(Lower(problem), "infinity")
    /\ outcome = Return(IndeterminateForm)

\* The value of the digit at position i of s in its run: the digit times ten
\* to the number of digits that follow it in the run.
RECURSIVE Pow10(_)
Pow10(n) == IF n = 0 THEN 1 ELSE 10 * Pow10(n - 1)

DigitsAfter(s, i) ==
    Cardinality({j \in (i + 1)..Len(s) : \A k \in (i + 1)..j : IsDigit(Ch(s, k))})

RECURSIVE SumOver(_, _)
SumOver(s, P) ==
    IF P = {} THEN 0
    ELSE LET i == Min(P)
         IN  DigitVal(Ch(s, i)) * Pow10(DigitsAfter(s, i)) + SumOver(s, P \ {i})

\* The sum of all the integers written in s.
SumOfIntegers(s) == SumOver(s, {i \in 1..Len(s) : IsDigit(Ch(s, i))})

\* C5: when the input matches digits, '+' or '-', digits (whitespace allowed
\* around the operator), contains '+' and neither "0/0" nor "infinity", the
\* answer of solve_math_problem is the sum of all the integers of the input,
\* of type arithmetic.
C5_SumOfAllIntegers ==
    (/\ Done /\ handler = "math"
     /\ SearchBinary(problem, {"+", "-"})
     /\ Contains(problem, "+")
     /\ ~Contains(problem, "0/0")
     /\ ~Contains(Lower(problem), "infinity")) =>
        /\ Returned
        /\ TypeOf(outcome) = "arithmetic"
        /\ outcome.sol.answer = PyInteger(SumOfIntegers(problem))

C5_Witness ==
    /\ Done /\ handler = "math"
    /\ problem = "1 1+1"
    /\ Returned
    /\ outcome.sol.answer = PyInteger(3)
    /\ outcome.sol.explanation = PyStr("Addition: 1 + 1 + 1 = 3")

\* The division branch is reached with a divisor written "0": the
\* multiplication and division pattern matches, there is no '*', there is a
\* '/', and the second integer of the input is the string "0".
DivisorIsZeroString(p) ==
    /\ SearchBinary(p, {"*", "/"})
    /\ ~Contains(p, "*")
    /\ Contains(p, "/")
    /\ Len(FindAllDigits(p)) >= 2
    /\ FindAllDigits(p)[2] = "0"

NoAreaNoPercent(p) ==
    /\ ~Contains(Lower(p), "area")
    /\ ~Contains(p, "%")
    /\ ~Contains(Lower(p), "percent")

\* C6 as stated: with a divisor written "0", and no 'area', '%' or 'percent'
\* in the input, solve_math_problem returns the generic placeholder.
C6_ZeroDivisorPlaceholder ==
    (Done /\ handler = "math" /\ DivisorIsZeroString(problem) /\ NoAreaNoPercent(problem)) =>
        outcome = Return(ComplexProblem)

\* C6, amended: the same, for an input on which no earlier check returns: it
\* contains neither "0/0" nor "infinity" and does not match the addition
\* and subtraction pattern.
C6_ZeroDivisorPlaceholderAmended ==
    (/\ Done /\ handler = "math"
     /\ DivisorIsZeroString(problem) /\ NoAreaNoPercent(problem)
     /\ ~Contains(problem, "0/0")
     /\ ~Contains(Lower(problem), "infinity")
     /\ ~SearchBinary(problem, {"+", "-"})) =>
        outcome = Return(ComplexProblem)

C6_Witness ==
    /\ Done /\ handler = "math"
    /\ problem = "1/0"
    /\ outcome = Return(ComplexProblem)

ErrorMessages ==
    {"division by zero", "integer division result too large for a float",
     "int too large to convert to float", "list index out of range"}

\* C7: solve_math_problem never raises; it returns the error Solution, with
\* the text of the exception in the explanation, exactly when the try block
\* raised.
C7_FailuresCaught ==
    (Done /\ handler = "math") =>
        /\ Returned
        /\ (TypeOf(outcome) = "error") <=> (\E o \in MathTry(problem) : o.tag = "raise")
        /\ TypeOf(outcome) = "error" =>
              /\ outcome.sol.answer = PyStr("Unable to solve")
              /\ \E m \in ErrorMessages :
                    outcome.sol.explanation = PyStr("Error in calculation: " \o m)
        /\ (\E o \in MathTry(problem) : o.tag = "raise") =>
              \E o \in MathTry(problem) :
                  /\ o.tag = "raise"
                  /\ outcome.sol.explanation = PyStr("Error in calculation: " \o o.msg)

C7_Witness ==
    /\ Done /\ handler = "math"
    /\ problem \in {"1%0", "1/00"}
    /\ outcome = Return(Solution(PyStr("Unable to solve"),
                                 PyStr("Error in calculation: division by zero"), "error"))

NoEarlierTrigger(q) ==
    /\ ~ContainsAny(Lower(q), MathKeywords)
    /\ ~ContainsAny(Lower(q), PhysicsKeywords)
    /\ ~ContainsAny(Lower(q), ProgrammingKeywords)
    /\ ~ContainsAny(Lower(q), TimeDateKeywords)

\* The first integer written in a text that has one.
FirstInteger(q) == PyInt(FindAllDigits(q)[1])

\* C8: solve_general_problem answers a query that contains 'fahrenheit to
\* celsius' and an integer, and no math, physics, programming or time/date
\* trigger word, with the conversion of its first integer to Celsius, a
\* Solution of type conversion.
C8_FahrenheitQueryConverted ==
    (/\ Done /\ General
     /\ Contains(Lower(problem), "fahrenheit to celsius")
     /\ FindAllDigits(problem) # <<>>
     /\ FirstInteger(problem).kind = "int"
     /\ NoEarlierTrigger(problem)) =>
        /\ Returned
        /\ TypeOf(outcome) = "conversion"
        /\ ~Contains(Lower(problem), "celsius to fahrenheit") =>
              outcome.sol.answer =
                  PyStr(Fixed1((FirstInteger(problem).val - 32) * 5, 9) \o "°C")

\* The answers of the two conversions for an integer the model computes:
\* n * 9 / 5 + 32 and (n - 32) * 5 / 9 to one decimal, with the unit.
FahrenheitAnswer(n) == PyStr(Fixed1(n * 9 + 160, 5) \o "°F")
CelsiusAnswer(n) == PyStr(Fixed1((n - 32) * 5, 9) \o "°C")

\* C9: for an input with 'celsius to fahrenheit' and an integer,
\* solve_conversion_problem returns C * 9 / 5 + 32 for the first integer C,
\* to one decimal with the suffix °F; for one with 'fahrenheit to celsius'
\* and not 'celsius to fahrenheit', (F - 32) * 5 / 9 with the suffix °C.
C9_ConversionOfFirstInteger ==
    (/\ Done /\ handler = "conversion"
     /\ FindAllDigits(problem) # <<>>
     /\ \/ Contains(Lower(problem), "celsius to fahrenheit")
        \/ Contains(Lower(problem), "fahrenheit to celsius")) =>
        /\ Returned
        /\ TypeOf(outcome) = "conversion"
        /\ FirstInteger(problem).kind = "int" =>
              outcome.sol.answer =
                  IF Contains(Lower(problem), "celsius to fahrenheit")
                  THEN FahrenheitAnswer(FirstInteger(problem).val)
                  ELSE CelsiusAnswer(FirstInteger(problem).val)

\* The part of C9 that holds: whenever the call returns, the answer is the
\* conversion of the first integer.
C9_ConversionWhenReturned ==
    (/\ Done /\ handler = "conversion" /\ Returned
     /\ FindAllDigits(problem) # <<>>
     /\ FirstInteger(problem).kind = "int"
     /\ \/ Contains(Lower(problem), "celsius to fahrenheit")
        \/ Contains(Lower(problem), "fahrenheit to celsius")) =>
        /\ TypeOf(outcome) = "conversion"
        /\ outcome.sol.answer =
              IF Contains(Lower(problem), "celsius to fahrenheit")
              THEN FahrenheitAnswer(FirstInteger(problem).val)
              ELSE CelsiusAnswer(FirstInteger(problem).val)
        /\ problem = "Celsius to Fahrenheit 100" => outcome.sol.answer = PyStr("212.0°F")
        /\ problem = "fahrenheit to celsius 32" => outcome.sol.answer = PyStr("0.0°C")
        /\ problem = "fahrenheit to celsius 5 " => outcome.sol.answer = PyStr("-15.0°C")
        /\ problem = "Celsius to Fahrenheit 5 100" => outcome.sol.answer = PyStr("41.0°F")

\* C10: an input of solve_conversion_problem that names a conversion but has
\* no integer gets the generic placeholder, as an input that names no
\* conversion does.
C10_NoNumberPlaceholder ==
    (Done /\ handler = "conversion") =>
        /\ (/\ \/ Contains(Lower(problem), "celsius to fahrenheit")
               \/ Contains(Lower(problem), "fahrenheit to celsius")
            /\ FindAllDigits(problem) = <<>>) => outcome = Return(ConversionResult)
        /\ (/\ ~Contains(Lower(problem), "celsius to fahrenheit")
            /\ ~Contains(Lower(problem), "fahrenheit to celsius")) =>
              outcome = Return(ConversionResult)
        /\ outcome = Return(ConversionResult) =>
              /\ outcome.sol.answer = PyStr("Conversion result")
              /\ TypeOf(outcome) = "conversion"

C10_Witness ==
    /\ Done /\ handler = "conversion"
    /\ problem \in {"Celsius to Fahrenheit ", "fahrenheit to celsius fahrenheit to "}
    /\ outcome = Return(ConversionResult)

\* The first and the second integer of the whole input.
FirstOperand(p) == Decimal(FindAllDigits(p)[1])
SecondOperand(p) == Decimal(FindAllDigits(p)[2])

AddSubMatches(p) == SearchBinary(p, {"+", "-"})
MulDivMatches(p) == SearchBinary(p, {"*", "/"}) /\ ~AddSubMatches(p)

ArithmeticAnswer(v) ==
    /\ Returned
    /\ TypeOf(outcome) = "arithmetic"
    /\ outcome.sol.answer = v

NoSpecialForm(p) == ~Contains(p, "0/0") /\ ~Contains(Lower(p), "infinity")

FinishedCalls == {c \in Callers : calls[c].pc = "done"}

\* C11: in every interleaving of invocations on one instance, self.solvers
\* is never written, and two invocations of a handler other than the
\* time/date handler on the same query have the same result, which is the
\* one result the query determines; so for the physics handler.
C11_NoCrossCallState ==
    /\ solvers = SolverTable
    /\ \A c \in FinishedCalls :
          calls[c].handler # "time_date" =>
              /\ calls[c].outcome.tag = "return"
              /\ Cardinality(MethodOutcomes(SolverTable[calls[c].handler], calls[c].problem)) = 1
              /\ \A d \in FinishedCalls :
                    (calls[d].handler = calls[c].handler /\ calls[d].problem = calls[c].problem)
                        => calls[d].outcome = calls[c].outcome
    /\ \A c \in FinishedCalls :
          (calls[c].handler = "physics" /\ calls[c].problem = "force 12") =>
              calls[c].outcome.sol.answer = PyStr("F = m × a")

\* Two callers hold the result of the physics handler for one query, one
\* through solve_general_problem and one through the handler itself.
C11_Witness ==
    \E c, d \in Callers :
        /\ c # d
        /\ calls[c].pc = "done" /\ calls[d].pc = "done"
        /\ calls[c].entry = "solve_general_problem" /\ calls[d].entry = "physics"
        /\ calls[c].handler = "physics" /\ calls[d].handler = "physics"
        /\ calls[c].problem = "force 12" /\ calls[d].problem = "force 12"
        /\ calls[c].outcome = calls[d].outcome
        /\ calls[c].outcome.sol.answer = PyStr("F = m × a")

-----------------------------------------------------------------------------
(* Properties of the server.                                               *)

\* The field an endpoint reads.
FieldOf(endpoint) == IF endpoint = "/chat" THEN "message" ELSE "problem"

Answered == request # NoRequest

\* The request has a JSON object with the endpoint's field, a string.
HasText(req) ==
    /\ req.body.json = "object"
    /\ FieldOf(req.endpoint) \in DOMAIN req.body.data
    /\ req.body.data[FieldOf(req.endpoint)].kind = "str"

TextOf(req) == req.body.data[FieldOf(req.endpoint)].val

\* The field of the request is missing (the JSON value sent is null, or an
\* object without the field), empty, or whitespace only.
FieldMissingOrBlank(req) ==
    \/ req.body.json = "null"
    \/ req.body.json = "object" /\ FieldOf(req.endpoint) \notin DOMAIN req.body.data
    \/ HasText(req) /\ \A i \in 1..Len(TextOf(req)) : IsSpace(Ch(TextOf(req), i))

\* The calls into the chatbot and the core made for the request.
CoreCalls ==
    {i \in 1..Len(consulted) :
        consulted[i].call \in {"process_message", "solve_problem", "solve_general_problem"}}

\* C12: a request to /chat or /solve whose field is missing, empty or
\* whitespace only is answered with status 400 and neither process_message
\* nor solve_problem is invoked; whenever the core is invoked its argument is
\* the trimmed, non-empty string.
C12_EmptyInputRejected ==
    Answered =>
        /\ FieldMissingOrBlank(request) => (reply.status = 400 /\ CoreCalls = {})
        /\ \A i \in CoreCalls :
              /\ HasText(request)
              /\ consulted[i].arg # ""
              /\ ~IsSpace(Ch(consulted[i].arg, 1))
              /\ ~IsSpace(Ch(consulted[i].arg, Len(consulted[i].arg)))
              /\ \E l, t \in 0..Len(TextOf(request)) :
                    /\ TextOf(request) = Repeat(" ", l) \o consulted[i].arg \o Repeat(" ", t)

\* What holds of the same requests: the core is not invoked, and a JSON
\* object without the field or with a blank string is answered with 400; the
\* JSON value null is answered with 500.
C12_CoreNeverGetsEmptyInput ==
    Answered =>
        /\ FieldMissingOrBlank(request) =>
              /\ CoreCalls = {}
              /\ reply.status = IF request.body.json = "object" THEN 400 ELSE 500
        /\ \A i \in CoreCalls :
              /\ HasText(request)
              /\ consulted[i].arg # ""
              /\ \E l, t \in 0..Len(TextOf(request)) :
                    /\ TextOf(request) = Repeat(" ", l) \o consulted[i].arg \o Repeat(" ", t)
                    /\ ~IsSpace(Ch(consulted[i].arg, 1))
                    /\ ~IsSpace(Ch(consulted[i].arg, Len(consulted[i].arg)))

\* The calls of process_message made for the request.
ProcessMessageCalls == {i \in 1..Len(consulted) : consulted[i].call = "process_message"}

\* The calls of the component named n made for the request.
CallsOf(n) == {i \in 1..Len(consulted) : consulted[i].call = n}

\* C14: EnhancedChatBot.process_message returns a record with the keys
\* response, type, sentiment and confidence and a non-empty response,
\* whatever components are there and whatever they do; nothing they raise
\* leaves process_message.
C14_ProcessMessageAlwaysAnswers ==
    (Answered /\ chatbot.kind = "enhanced") =>
        \A i \in ProcessMessageCalls :
            /\ consulted[i].result.tag = "value"
            /\ {"response", "type", "sentiment", "confidence"} \subseteq DOMAIN consulted[i].result.val
            /\ Truthy(consulted[i].result.val.response)
            /\ consulted[i].result.val.response.kind \in {"str", "fstr"}
            /\ consulted[i].result.val.sentiment.kind = "str"
            /\ consulted[i].result.val.confidence.kind = "float"

\* Every component is there and every one consulted raises; the canned
\* response is returned.
C14_Witness ==
    /\ Answered /\ request.endpoint = "/chat"
    /\ chatbot.kind = "enhanced"
    /\ chatbot.sentiment_analyzer /\ chatbot.tfidf_matrix /\ chatbot.generator
    /\ Len(consulted) = 4
    /\ consulted[1].call = "process_message" /\ consulted[1].arg = "hello"
    /\ consulted[2].call = "sentiment_analyzer" /\ consulted[2].result.tag = "raise"
    /\ consulted[3].call = "vectorizer" /\ consulted[3].result.tag = "raise"
    /\ consulted[4].call = "generator" /\ consulted[4].result.tag = "raise"
    /\ consulted[1].result.val.type = PyStr("fallback")
    /\ consulted[1].result.val.response = PyStr("That's interesting! Tell me more.")
    /\ consulted[1].result.val.sentiment = PyStr("NEUTRAL")
    /\ consulted[1].result.val.confidence = PyFloat(1, 2)
    /\ reply.status = 200

\* A consulted component produced a response: it returned a non-empty value.
Produced(i) == consulted[i].result.tag = "value" /\ Truthy(consulted[i].result.val)

IsProblemSolutionType(t) == Len(t) >= 17 /\ SubSeq(t, 1, 17) = "problem_solution_"

\* C15: the type of the record process_message returns names the stage that
\* produced the response, the stages being tried in the order problem
\* solver, rule matcher, generator, canned response.
C15_TypeNamesStage ==
    (Answered /\ chatbot.kind = "enhanced") =>
        \A i \in ProcessMessageCalls :
            LET res == consulted[i].result.val
                t == res.type.val
                solved == CallsOf("solve_problem")
                rules == CallsOf("vectorizer")
                gens == CallsOf("generator")
                ruleProduced == \E j \in rules : Produced(j)
                genProduced == \E j \in gens : Produced(j)
            IN  /\ IsProblemSolutionType(t) \/ t \in {"rule_based", "ai_generated", "fallback"}
                /\ IsProblemSolutionType(t) =>
                      /\ ContainsAny(Lower(consulted[i].arg), ProblemKeywords)
                      /\ chatbot.problem_solver
                      /\ \E j \in solved :
                            /\ consulted[j].result.tag = "value"
                            /\ t = "problem_solution_" \o consulted[j].result.val.type.val
                            /\ res.solution_details = consulted[j].result.val
                      /\ rules = {} /\ gens = {}
                /\ t = "rule_based" =>
                      /\ \E j \in rules : Produced(j) /\ res.response = consulted[j].result.val
                      /\ gens = {}
                /\ t = "ai_generated" =>
                      /\ ~ruleProduced
                      /\ \E j \in gens : Produced(j) /\ res.response = consulted[j].result.val
                /\ t = "fallback" <=>
                      (~IsProblemSolutionType(t) /\ ~ruleProduced /\ ~genProduced)
                /\ t = "fallback" => res.response.val \in CannedResponses
                /\ ruleProduced => gens = {}
                /\ (ContainsAny(Lower(consulted[i].arg), ProblemKeywords) /\ chatbot.problem_solver)
                      => solved # {}
                /\ \A j \in solved, k \in rules \cup gens : j < k
                /\ \A j \in rules, k \in gens : j < k

\* The rule matcher is consulted and returns nothing, then the generator
\* returns a text: the type is ai_generated.
C15_Witness ==
    /\ Answered /\ request.endpoint = "/chat"
    /\ chatbot.kind = "enhanced" /\ chatbot.problem_solver
    /\ CallsOf("solve_problem") = {}
    /\ \E j \in CallsOf("vectorizer"), k \in CallsOf("generator") :
          /\ j < k
          /\ consulted[j].result = Value(PyNone)
          /\ consulted[k].result = Value(PyStr("generated text"))
    /\ reply.status = 200
    /\ reply.json.response_type = PyStr("ai_generated")
    /\ reply.json.bot_response = PyStr("generated text")

\* The field of the request is a string that is not blank.
HasNonBlankText(req) == HasText(req) /\ ~FieldMissingOrBlank(req)

SolverFailed ==
    \/ ~chatbot.problem_solver
    \/ \E j \in CallsOf("solve_general_problem") : consulted[j].result.tag = "raise"

\* C16: every request to /chat and /solve is answered with a JSON response of
\* status 200, 400 or 500.  With FallbackChatBot installed, /chat with a
\* non-empty message answers 200 with response_type error and /solve with a
\* non-empty problem answers with an error response; with EnhancedChatBot,
\* when the solver is unavailable or raises, /solve answers 200 with the
\* solution 'Problem solver not available' of type fallback.
C16_EndpointsAlwaysAnswer ==
    Answered =>
        /\ reply.status \in {200, 400, 500}
        /\ DOMAIN reply.json # {}
        /\ reply.status = 200 <=> "error" \notin DOMAIN reply.json
        /\ (chatbot.kind = "fallback" /\ HasNonBlankText(request)) =>
              IF request.endpoint = "/chat"
              THEN /\ reply.status = 200
                   /\ reply.json.response_type = PyStr("error")
                   /\ reply.json.bot_response = FallbackResponse.response
              ELSE /\ reply.status = 500
                   /\ reply.json.error =
                        PyStr("'FallbackChatBot' object has no attribute 'solve_problem'")
        /\ (/\ chatbot.kind = "enhanced" /\ request.endpoint = "/solve"
            /\ HasNonBlankText(request) /\ SolverFailed) =>
              /\ reply.status = 200
              /\ reply.json.solution.answer = PyStr("Problem solver not available")
              /\ reply.json.solution.type = PyStr("fallback")

\* The solver raises on the problem of a /solve request; the endpoint
\* answers 200 with the fallback solution.
C16_Witness ==
    /\ Answered /\ request.endpoint = "/solve"
    /\ chatbot.kind = "enhanced" /\ chatbot.problem_solver
    /\ \E j \in CallsOf("solve_general_problem") :
          /\ consulted[j].result.tag = "raise"
          /\ consulted[j].result.exc = "OverflowError"
    /\ reply.status = 200
    /\ reply.json.solution = ProblemSolverNotAvailable
=============================================================================
